---- MODULE Spec2Model ----
(***************************************************************************)
(* Model of playbooks/robusta_playbooks/common_actions.py: the two         *)
(* playbook actions create_finding and customise_finding, the label        *)
(* extractor _get_templating_labels they share, and string.Template's      *)
(* safe_substitute as they use it.                                         *)
(*                                                                         *)
(* Representation of Python values:                                        *)
(*   str                 a sequence of one-character strings               *)
(*   None                the one-element sequence <<"None">>               *)
(*   an omitted keyword  the one-element sequence <<"Omitted">>            *)
(*   FindingSeverity.X   the pair <<"FindingSeverity", "X">>               *)
(* so that every value is a sequence and any two can be compared.          *)
(***************************************************************************)
EXTENDS Integers, Sequences, FiniteSets, TLC

\* event     the event a playbook runs on: its subject and its source
\* findings  the Findings the event holds, in the order they were added
\* step      how many actions of the playbook have run on the event
\* call      the action that ran last, with the parameters it was given
\* outcome   how that action ended
VARIABLES event, findings, step, call, outcome

vars == <<event, findings, step, call, outcome>>

\* The number of actions in the playbook.
MaxActions == 3

None == <<"None">>
Omitted == <<"Omitted">>

\* bool(x) of an Optional[str]: None and the empty string are falsy.
Truthy(x) == x # None /\ x # <<>>

--------------------------------------------------------------------------
\* String literals used by the code and by the inputs.

MISSING == <<"<", "m", "i", "s", "s", "i", "n", "g", ">">>
KeyName == <<"n", "a", "m", "e">>
KeyKind == <<"k", "i", "n", "d">>
KeyNamespace == <<"n", "a", "m", "e", "s", "p", "a", "c", "e">>
KeyNode == <<"n", "o", "d", "e">>

SevDEBUG == <<"D", "E", "B", "U", "G">>
SevINFO == <<"I", "N", "F", "O">>
SevLOW == <<"L", "O", "W">>
SevMEDIUM == <<"M", "E", "D", "I", "U", "M">>
SevHIGH == <<"H", "I", "G", "H">>
SevCRITICAL == <<"C", "R", "I", "T", "I", "C", "A", "L">>
SevLowerHigh == <<"h", "i", "g", "h">>

\* "$kind/$namespace/$name"
TplExample == <<"$", "k", "i", "n", "d", "/", "$", "n", "a", "m", "e", "s", "p", "a", "c", "e", "/", "$", "n", "a", "m", "e">>
\* "$unknownVar"
TplUnknown == <<"$", "u", "n", "k", "n", "o", "w", "n", "V", "a", "r">>
\* "${unknownVar}"
TplUnknownBraced == <<"$", "{", "u", "n", "k", "n", "o", "w", "n", "V", "a", "r", "}">>
\* "Old Title"
TplOldTitle == <<"O", "l", "d", " ", "T", "i", "t", "l", "e">>
\* "${name}$$5"
TplBracedEscaped == <<"$", "{", "n", "a", "m", "e", "}", "$", "$", "5">>
\* "$name down"
TplNameDown == <<"$", "n", "a", "m", "e", " ", "d", "o", "w", "n">>
\* "on $node"
TplOnNode == <<"o", "n", " ", "$", "n", "o", "d", "e">>
\* "$5 ${node"
TplInvalid == <<"$", "5", " ", "$", "{", "n", "o", "d", "e">>

\* Aggregation keys: "A", "B" and "$name" (looks like a template, is not one).
AggA == <<"A">>
AggB == <<"B">>
AggDollarName == <<"$", "n", "a", "m", "e">>

--------------------------------------------------------------------------
\* The events of the model: a subject and a source each.

SubjPod == [name |-> <<"a", "p", "i", "-", "1">>, subject_type |-> [value |-> <<"P", "o", "d">>], namespace |-> <<"p", "r", "o", "d">>, node |-> None]
SubjNode == [name |-> <<"n", "1">>, subject_type |-> [value |-> <<"N", "o", "d", "e">>], namespace |-> None, node |-> <<"n", "1">>]
SubjJob == [name |-> <<"j", "-", "0">>, subject_type |-> [value |-> <<"J", "o", "b">>], namespace |-> <<>>, node |-> <<>>]

Events == { [subject |-> SubjPod, source |-> "KUBERNETES_API_SERVER"], [subject |-> SubjNode, source |-> "PROMETHEUS"], [subject |-> SubjJob, source |-> "MANUAL"] }

get_subject == event.subject
get_source == event.source

--------------------------------------------------------------------------
\* Variants of _get_templating_labels: a plain dict in place of the
\* defaultdict; namespace and node stored as the subject has them.
_get_templating_labels_plain_dict(subject) == [hasDefault |-> FALSE, default |-> MISSING, items |-> (KeyName :> subject.name) @@ (KeyKind :> subject.subject_type.value) @@ (KeyNamespace :> IF Truthy(subject.namespace) THEN subject.namespace ELSE MISSING) @@ (KeyNode :> IF Truthy(subject.node) THEN subject.node ELSE MISSING)]

_get_templating_labels_no_fallback(subject) == [hasDefault |-> TRUE, default |-> MISSING, items |-> (KeyName :> subject.name) @@ (KeyKind :> subject.subject_type.value) @@ (KeyNamespace :> subject.namespace) @@ (KeyNode :> subject.node)]

\* _get_templating_labels: a defaultdict whose default is "<missing>",
\* updated with the four labels of the subject.
_get_templating_labels(subject) == [hasDefault |-> TRUE, default |-> MISSING, items |-> (KeyName :> subject.name) @@ (KeyKind :> subject.subject_type.value) @@ (KeyNamespace :> IF Truthy(subject.namespace) THEN subject.namespace ELSE MISSING) @@ (KeyNode :> IF Truthy(subject.node) THEN subject.node ELSE MISSING)]

--------------------------------------------------------------------------
\* string.Template.safe_substitute(mapping), Python standard library, as
\* called at lines 50, 51, 89 and 90.  Template.pattern is
\*   \$(?: (?P<escaped>\$) | (?P<named>[_a-z][_a-z0-9]*)
\*       | {(?P<braced>[_a-z][_a-z0-9]*)} | (?P<invalid>) )      re.IGNORECASE
\* and every match is replaced, left to right, without rescanning.

Letters == {"a", "b", "c", "d", "e", "f", "g", "h", "i", "j", "k", "l", "m", "n", "o", "p", "q", "r", "s", "t", "u", "v", "w", "x", "y", "z", "A", "B", "C", "D", "E", "F", "G", "H", "I", "J", "K", "L", "M", "N", "O", "P", "Q", "R", "S", "T", "U", "V", "W", "X", "Y", "Z"}
Digits == {"0", "1", "2", "3", "4", "5", "6", "7", "8", "9"}
IdStart == Letters \cup {"_"}
IdCont == IdStart \cup Digits

\* str(v)
Str(v) == IF v = None THEN <<"N", "o", "n", "e">> ELSE v

\* mapping[key]: the item, the default of a defaultdict, or a KeyError.
KeyError == <<"KeyError">>
GetItem(mapping, key) == IF key \in DOMAIN mapping.items THEN mapping.items[key] ELSE IF mapping.hasDefault THEN mapping.default ELSE KeyError

\* The index of the last character of the identifier that starts at i
\* (the match of [_a-z][_a-z0-9]* is greedy).
RECURSIVE IdEnd(_, _)
IdEnd(t, i) == IF i + 1 <= Len(t) /\ t[i + 1] \in IdCont THEN IdEnd(t, i + 1) ELSE i

\* convert(mo) for a named or braced match: the text it stands for.
Convert(mapping, t, from, to, first, last) == LET v == GetItem(mapping, SubSeq(t, first, last)) IN IF v = KeyError THEN SubSeq(t, from, to) ELSE Str(v)

RECURSIVE Sub(_, _, _)
Sub(t, i, mapping) ==
  IF i > Len(t) THEN <<>>
  ELSE IF t[i] # "$" THEN <<t[i]>> \o Sub(t, i + 1, mapping)
  ELSE IF i + 1 <= Len(t) /\ t[i + 1] = "$" THEN <<"$">> \o Sub(t, i + 2, mapping)
  ELSE IF i + 1 <= Len(t) /\ t[i + 1] \in IdStart
    THEN LET e == IdEnd(t, i + 1) IN Convert(mapping, t, i, e, i + 1, e) \o Sub(t, e + 1, mapping)
  ELSE IF i + 2 <= Len(t) /\ t[i + 1] = "{" /\ t[i + 2] \in IdStart /\ IdEnd(t, i + 2) + 1 <= Len(t) /\ t[IdEnd(t, i + 2) + 1] = "}"
    THEN LET e == IdEnd(t, i + 2) IN Convert(mapping, t, i, e + 1, i + 2, e) \o Sub(t, e + 2, mapping)
  ELSE <<"$">> \o Sub(t, i + 1, mapping)

safe_substitute(template, mapping) == Sub(template, 1, mapping)

--------------------------------------------------------------------------
\* The host's API (robusta.api), outside this file.

\* FindingSeverity: the enum and its members' names.
SeverityNames == {SevDEBUG, SevINFO, SevLOW, SevMEDIUM, SevHIGH}
FindingSeverity(name) == <<"FindingSeverity", name>>

\* What an expression that raises evaluates to.
Raise == <<"Raise">>

\* FindingSeverity.from_severity(severity): the member of that name, an
\* error for anything else.
from_severity(severity) == IF severity \in SeverityNames THEN FindingSeverity(severity) ELSE Raise

\* FindingSeverity[name]: the member of that name, a KeyError otherwise.
FindingSeverityItem(name) == IF name \in SeverityNames THEN FindingSeverity(name) ELSE Raise

\* Finding(title=..., description=..., aggregation_key=..., severity=...,
\* subject=..., source=...)
Finding(title, description, aggregation_key, severity, subject, source) == [title |-> title, description |-> description, aggregation_key |-> aggregation_key, severity |-> severity, subject |-> subject, source |-> source]

\* event.add_finding(finding): appends to the Findings the event holds.
add_finding(fs, finding) == Append(fs, finding)

\* event.override_finding_attributes(title, description, severity): on the
\* Findings the event holds, sets the attributes that are given and leaves
\* the others as they are.
override_finding_attributes(fs, title, description, severity) == [i \in 1..Len(fs) |-> [fs[i] EXCEPT !.title = IF title # None THEN title ELSE @, !.description = IF description # None THEN description ELSE @, !.severity = IF severity # None THEN severity ELSE @]]

--------------------------------------------------------------------------
\* The parameter records: a field that the caller omits takes its default.

FindingOverrides(title, description, severity) == [title |-> IF title = Omitted THEN None ELSE title, description |-> IF description = Omitted THEN None ELSE description, severity |-> IF severity = Omitted THEN None ELSE severity]

\* Variant: another default severity.
FindingFields_default_medium(title, aggregation_key, description, severity) == [title |-> title, aggregation_key |-> aggregation_key, description |-> IF description = Omitted THEN None ELSE description, severity |-> IF severity = Omitted THEN SevMEDIUM ELSE severity]

FindingFields(title, aggregation_key, description, severity) == [title |-> title, aggregation_key |-> aggregation_key, description |-> IF description = Omitted THEN None ELSE description, severity |-> IF severity = Omitted THEN SevHIGH ELSE severity]

--------------------------------------------------------------------------
\* customise_finding(event, params): what it raises and the Findings the
\* event holds when it ends.

Returned(fs) == [raised |-> FALSE, findings |-> fs]
Raised(fs) == [raised |-> TRUE, findings |-> fs]

\* Variant: a field that is not given is rendered as the empty template.
customise_finding_run_resets_unset(fs, subject, params) ==
  LET severity == IF Truthy(params.severity) THEN FindingSeverityItem(params.severity) ELSE None
      labels == _get_templating_labels(subject)
      title == safe_substitute(IF params.title = None THEN <<>> ELSE params.title, labels)
      description == safe_substitute(IF params.description = None THEN <<>> ELSE params.description, labels)
  IN IF severity = Raise THEN Raised(fs)
     ELSE Returned(override_finding_attributes(fs, title, description, severity))

\* Variant: on an event that holds no Finding, one is created.
customise_finding_run_creates(fs, subject, params) ==
  LET severity == IF Truthy(params.severity) THEN FindingSeverityItem(params.severity) ELSE None
      labels == _get_templating_labels(subject)
      title == IF Truthy(params.title) THEN safe_substitute(params.title, labels) ELSE None
      description == IF Truthy(params.description) THEN safe_substitute(params.description, labels) ELSE None
  IN IF severity = Raise THEN Raised(fs)
     ELSE IF fs = <<>> THEN Returned(add_finding(fs, Finding(title, description, None, severity, subject, None)))
     ELSE Returned(override_finding_attributes(fs, title, description, severity))

\* Variant: the severity is looked up after title and description are
\* overridden.
customise_finding_run_late_lookup(fs, subject, params) ==
  LET severity == IF Truthy(params.severity) THEN FindingSeverityItem(params.severity) ELSE None
      labels == _get_templating_labels(subject)
      title == IF Truthy(params.title) THEN safe_substitute(params.title, labels) ELSE None
      description == IF Truthy(params.description) THEN safe_substitute(params.description, labels) ELSE None
  IN IF severity = Raise THEN Raised(override_finding_attributes(fs, title, description, None))
     ELSE Returned(override_finding_attributes(fs, title, description, severity))

\* Variant: title and description are passed on as given, not rendered.
customise_finding_run_unrendered(fs, subject, params) ==
  LET severity == IF Truthy(params.severity) THEN FindingSeverityItem(params.severity) ELSE None
      title == IF Truthy(params.title) THEN params.title ELSE None
      description == IF Truthy(params.description) THEN params.description ELSE None
  IN IF severity = Raise THEN Raised(fs)
     ELSE Returned(override_finding_attributes(fs, title, description, severity))

customise_finding_run(fs, subject, params) ==
  LET severity == IF Truthy(params.severity) THEN FindingSeverityItem(params.severity) ELSE None
      labels == _get_templating_labels(subject)
      title == IF Truthy(params.title) THEN safe_substitute(params.title, labels) ELSE None
      description == IF Truthy(params.description) THEN safe_substitute(params.description, labels) ELSE None
  IN IF severity = Raise THEN Raised(fs)
     ELSE Returned(override_finding_attributes(fs, title, description, severity))

\* Variant: the aggregation key is rendered like the title.
create_finding_run_renders_key(fs, subject, source, params) ==
  LET labels == _get_templating_labels(subject)
      title == safe_substitute(params.title, labels)
      description == IF Truthy(params.description) THEN safe_substitute(params.description, labels) ELSE None
      severity == from_severity(params.severity)
  IN IF severity = Raise THEN Raised(fs)
     ELSE Returned(add_finding(fs, Finding(title, description, safe_substitute(params.aggregation_key, labels), severity, subject, source)))

\* Variant: the Finding is added first and its severity set afterwards.
create_finding_run_adds_first(fs, subject, source, params) ==
  LET labels == _get_templating_labels(subject)
      title == safe_substitute(params.title, labels)
      description == IF Truthy(params.description) THEN safe_substitute(params.description, labels) ELSE None
      severity == from_severity(params.severity)
  IN IF severity = Raise THEN Raised(add_finding(fs, Finding(title, description, params.aggregation_key, None, subject, source)))
     ELSE Returned(add_finding(fs, Finding(title, description, params.aggregation_key, severity, subject, source)))

\* Variant: the title is stored as given, not rendered.
create_finding_run_unrendered(fs, subject, source, params) ==
  LET labels == _get_templating_labels(subject)
      description == IF Truthy(params.description) THEN safe_substitute(params.description, labels) ELSE None
      severity == from_severity(params.severity)
  IN IF severity = Raise THEN Raised(fs)
     ELSE Returned(add_finding(fs, Finding(params.title, description, params.aggregation_key, severity, subject, source)))

\* create_finding(event, params): the arguments of Finding(...) are
\* evaluated, severity among them, before add_finding is called.
create_finding_run(fs, subject, source, params) ==
  LET labels == _get_templating_labels(subject)
      title == safe_substitute(params.title, labels)
      description == IF Truthy(params.description) THEN safe_substitute(params.description, labels) ELSE None
      severity == from_severity(params.severity)
  IN IF severity = Raise THEN Raised(fs)
     ELSE Returned(add_finding(fs, Finding(title, description, params.aggregation_key, severity, subject, source)))

--------------------------------------------------------------------------
\* The calls of the model.

CreateTitles == {TplExample, TplUnknown, TplOldTitle, TplBracedEscaped}
CreateKeys == {AggA, AggB, AggDollarName}
CreateDescriptions == {Omitted, <<>>, TplOnNode}
CreateSeverities == {Omitted, None, <<>>, SevCRITICAL, SevLowerHigh} \cup SeverityNames

\* One field at a time away from create_finding(TplExample, AggA).
CreateCalls == { [op |-> "create_finding", title |-> t, aggregation_key |-> AggA, description |-> Omitted, severity |-> Omitted] : t \in CreateTitles } \cup { [op |-> "create_finding", title |-> TplExample, aggregation_key |-> k, description |-> Omitted, severity |-> Omitted] : k \in CreateKeys } \cup { [op |-> "create_finding", title |-> TplExample, aggregation_key |-> AggA, description |-> d, severity |-> Omitted] : d \in CreateDescriptions } \cup { [op |-> "create_finding", title |-> TplExample, aggregation_key |-> AggA, description |-> Omitted, severity |-> s] : s \in CreateSeverities }

CustomiseTitles == {Omitted, <<>>, TplNameDown, TplUnknownBraced}
CustomiseDescriptions == {Omitted, <<>>, TplInvalid}
CustomiseSeverities == {Omitted, None, <<>>, SevDEBUG, SevCRITICAL}

\* One field at a time, and a title together with each severity.
CustomiseCalls == { [op |-> "customise_finding", title |-> t, aggregation_key |-> Omitted, description |-> Omitted, severity |-> Omitted] : t \in CustomiseTitles } \cup { [op |-> "customise_finding", title |-> Omitted, aggregation_key |-> Omitted, description |-> d, severity |-> Omitted] : d \in CustomiseDescriptions } \cup { [op |-> "customise_finding", title |-> t, aggregation_key |-> Omitted, description |-> Omitted, severity |-> s] : t \in {Omitted, TplNameDown}, s \in CustomiseSeverities } \cup { [op |-> "customise_finding", title |-> TplNameDown, aggregation_key |-> Omitted, description |-> TplInvalid, severity |-> s] : s \in {SevDEBUG, SevCRITICAL} }

NoCall == [op |-> "none", title |-> Omitted, aggregation_key |-> Omitted, description |-> Omitted, severity |-> Omitted]

Init ==
  /\ event \in Events
  /\ findings = <<>>
  /\ step = 0
  /\ call = NoCall
  /\ outcome = "none"

\* The playbook runs its next action: an error ends the run.
Running == step < MaxActions /\ outcome \in {"none", "returned"}

\* A playbook step runs create_finding on the event.
create_finding(c) ==
  LET r == create_finding_run(findings, get_subject, get_source, FindingFields(c.title, c.aggregation_key, c.description, c.severity))
  IN /\ Running
     /\ step' = step + 1
     /\ call' = c
     /\ findings' = r.findings
     /\ outcome' = IF r.raised THEN "InvalidSeverity" ELSE "returned"
     /\ UNCHANGED event

\* A playbook step runs customise_finding on the event.  What the host does
\* when the event holds no Finding is its own: it returns or it fails.
customise_finding(c) ==
  LET r == customise_finding_run(findings, get_subject, FindingOverrides(c.title, c.description, c.severity))
  IN /\ Running
     /\ step' = step + 1
     /\ call' = c
     /\ findings' = r.findings
     /\ outcome' \in (IF r.raised THEN {"InvalidSeverity"} ELSE IF findings = <<>> THEN {"returned", "HostError"} ELSE {"returned"})
     /\ UNCHANGED event

Next ==
  \/ \E c \in CreateCalls : create_finding(c)
  \/ \E c \in CustomiseCalls : customise_finding(c)

Spec == Init /\ [][Next]_vars

--------------------------------------------------------------------------
\* Properties.

Last(fs) == fs[Len(fs)]
Created == call.op = "create_finding" /\ outcome = "returned"
Customised == call.op = "customise_finding" /\ outcome = "returned"
Unset == {Omitted, None}

\* The text a label stands for, read off the subject.
LabelText(v) == IF v = None \/ v = <<>> THEN MISSING ELSE v

\* "Pod/prod/api-1"
TextPodProdApi1 == <<"P", "o", "d", "/", "p", "r", "o", "d", "/", "a", "p", "i", "-", "1">>

\* The rendering of each template of the model, written out by hand: labels
\* by their text, "$$" as "$", a name that is no label by "<missing>", and
\* a "$" that starts no placeholder as it is.
Rendering(t, subject) ==
  CASE t = TplExample -> subject.subject_type.value \o <<"/">> \o LabelText(subject.namespace) \o <<"/">> \o subject.name
    [] t = TplUnknown -> MISSING
    [] t = TplUnknownBraced -> MISSING
    [] t = TplOldTitle -> TplOldTitle
    [] t = TplBracedEscaped -> subject.name \o <<"$", "5">>
    [] t = TplNameDown -> subject.name \o <<" ", "d", "o", "w", "n">>
    [] t = TplOnNode -> <<"o", "n", " ">> \o LabelText(subject.node)
    [] t = TplInvalid -> TplInvalid
    [] t = <<>> -> <<>>

\* The same with only the placeholders that name a label replaced and all
\* other text as it is in the template.
LabelsOnlyRendering(t, subject) ==
  CASE t = TplExample -> subject.subject_type.value \o <<"/">> \o LabelText(subject.namespace) \o <<"/">> \o subject.name
    [] t = TplOldTitle -> TplOldTitle
    [] t = TplBracedEscaped -> subject.name \o <<"$", "$", "5">>

\* C1: every create_finding that returns appends exactly one Finding, whose
\* aggregation_key is the aggregation_key parameter as given, and leaves the
\* Findings the event already held in place and unchanged.
C1_CreateAppendsOne == [][(call'.op = "create_finding" /\ outcome' = "returned") => (Len(findings') = Len(findings) + 1 /\ SubSeq(findings', 1, Len(findings)) = findings /\ Last(findings').aggregation_key = call'.aggregation_key)]_vars

\* C1 witness: two create_finding calls with different keys have left two
\* Findings, each with its own key, the second key being "$name" verbatim.
C1_Witness == Created /\ Len(findings) = 2 /\ findings[1].aggregation_key = AggA /\ findings[2].aggregation_key = AggDollarName /\ call.aggregation_key = AggDollarName

\* C2: create_finding with a severity that is none of DEBUG, INFO, LOW,
\* MEDIUM, HIGH raises and leaves the event's Findings as they were.
C2_InvalidSeverityAddsNothing == [][(call'.op = "create_finding" /\ call'.severity \notin SeverityNames \cup {Omitted}) => (outcome' = "InvalidSeverity" /\ findings' = findings)]_vars

\* C2 witness: create_finding with severity "CRITICAL" has raised on an
\* event that already held a Finding.
C2_Witness == call.op = "create_finding" /\ call.severity = SevCRITICAL /\ outcome = "InvalidSeverity" /\ Len(findings) >= 1

\* C3: customise_finding leaves title, description and severity of every
\* Finding as they were for each of the three that is null in the request,
\* and sets the severity that is given.
C3_UnsetFieldsUntouched ==
  [][(call'.op = "customise_finding" /\ outcome' = "returned") =>
       /\ Len(findings') = Len(findings)
       /\ \A i \in 1..Len(findings) :
            /\ (call'.title \in Unset) => (findings'[i].title = findings[i].title)
            /\ (call'.description \in Unset) => (findings'[i].description = findings[i].description)
            /\ (call'.severity \in Unset) => (findings'[i].severity = findings[i].severity)
            /\ (call'.severity \in SeverityNames) => (findings'[i].severity = FindingSeverity(call'.severity))]_vars

\* C3 witness: customise_finding with only severity set has run on an event
\* whose Finding is titled "Old Title"; the title stands, the severity is
\* the new one.
C3_Witness == Customised /\ call.title = Omitted /\ call.description = Omitted /\ call.severity = SevDEBUG /\ Len(findings) = 1 /\ findings[1].title = TplOldTitle /\ findings[1].severity = FindingSeverity(SevDEBUG)

\* C4 as claimed: a placeholder whose name is no label key, "$unknownVar"
\* or "${unknownVar}", is left verbatim in the title that create_finding
\* and customise_finding render.
C4_UnknownLeftVerbatim ==
  /\ (Created /\ call.title = TplUnknown) => (Last(findings).title = TplUnknown)
  /\ (Customised /\ call.title = TplUnknownBraced) => (\A i \in 1..Len(findings) : findings[i].title = TplUnknownBraced)

\* C4 amended: a placeholder whose name is no label key is rendered as
\* "<missing>", the default of the label mapping, by create_finding and by
\* customise_finding.
C4_UnknownRendersMissing ==
  /\ (Created /\ call.title = TplUnknown) => (Last(findings).title = MISSING)
  /\ (Customised /\ call.title = TplUnknownBraced) => (\A i \in 1..Len(findings) : findings[i].title = MISSING)

\* C4 witness: create_finding with title "$unknownVar" has added a Finding
\* titled "<missing>".
C4_Witness == Created /\ call.title = TplUnknown /\ Last(findings).title = MISSING

\* C5 as claimed: the title of the Finding create_finding adds is the title
\* parameter with the placeholders that name a label replaced and all other
\* text unchanged.
C5_OtherTextUnchanged == (Created /\ call.title \in {TplExample, TplOldTitle, TplBracedEscaped}) => Last(findings).title = LabelsOnlyRendering(call.title, get_subject)

\* C5 amended: the title of the Finding create_finding adds is the
\* rendering of the title parameter: labels replaced by their values, "$$"
\* by "$", a name that is no label by "<missing>", all other text
\* unchanged; "$kind/$namespace/$name" on Pod, prod, api-1 gives exactly
\* "Pod/prod/api-1".
C5_TitleIsRendering ==
  /\ Created => (Last(findings).title = Rendering(call.title, get_subject))
  /\ (Created /\ get_subject = SubjPod /\ call.title = TplExample) => (Last(findings).title = TextPodProdApi1)

\* C5 witness: create_finding with title "$kind/$namespace/$name" on the
\* subject Pod, prod, api-1 has added a Finding titled "Pod/prod/api-1".
C5_Witness == Created /\ get_subject = SubjPod /\ call.title = TplExample /\ Last(findings).title = TextPodProdApi1

\* C6 as claimed: the label extractor maps namespace to "<missing>" when the
\* subject's namespace is null and to the subject's namespace whenever it is
\* not null, and likewise node.
C6_NonNullKeptExactly ==
  (Created \/ Customised) =>
    LET items == _get_templating_labels(get_subject).items
    IN /\ items[KeyNamespace] = (IF get_subject.namespace = None THEN MISSING ELSE get_subject.namespace)
       /\ items[KeyNode] = (IF get_subject.node = None THEN MISSING ELSE get_subject.node)

\* C6 amended: the label extractor maps namespace to "<missing>" when the
\* subject's namespace is null or the empty string and to the subject's
\* namespace otherwise, and likewise node; it yields null for neither key.
C6_NonEmptyKeptExactly ==
  (Created \/ Customised) =>
    LET items == _get_templating_labels(get_subject).items
    IN /\ (get_subject.namespace \in {None, <<>>}) => (items[KeyNamespace] = MISSING)
       /\ (get_subject.namespace \notin {None, <<>>}) => (items[KeyNamespace] = get_subject.namespace)
       /\ (get_subject.node \in {None, <<>>}) => (items[KeyNode] = MISSING)
       /\ (get_subject.node \notin {None, <<>>}) => (items[KeyNode] = get_subject.node)
       /\ items[KeyNamespace] # None
       /\ items[KeyNode] # None

\* C6 witness: on a subject with no namespace and a node, create_finding
\* has rendered "$kind/$namespace/$name" with the namespace as "<missing>".
C6_Witness == Created /\ get_subject.namespace = None /\ get_subject.node # None /\ call.title = TplExample /\ Last(findings).title = get_subject.subject_type.value \o <<"/">> \o MISSING \o <<"/">> \o get_subject.name

\* C7: create_finding with one of the five severity names returns and the
\* Finding it adds has that severity; with no severity given the Finding
\* has severity HIGH.
C7_SeverityAsNamed == (call.op = "create_finding" /\ call.severity \in SeverityNames \cup {Omitted}) => (outcome = "returned" /\ Last(findings).severity = FindingSeverity(IF call.severity = Omitted THEN SevHIGH ELSE call.severity))

\* C7 witness: create_finding with no severity given has added a Finding of
\* severity HIGH after one with severity "DEBUG" added a Finding of
\* severity DEBUG.
C7_Witness == Created /\ call.severity = Omitted /\ Len(findings) = 2 /\ findings[1].severity = FindingSeverity(SevDEBUG) /\ findings[2].severity = FindingSeverity(SevHIGH)

\* C8: customise_finding leaves the number of Findings on the event as it
\* was, also when there is none, and the aggregation_key, subject and source
\* of each Finding unchanged.
C8_CustomiseKeepsFindings ==
  [][(call'.op = "customise_finding") =>
       /\ Len(findings') = Len(findings)
       /\ \A i \in 1..Len(findings) :
            /\ findings'[i].aggregation_key = findings[i].aggregation_key
            /\ findings'[i].subject = findings[i].subject
            /\ findings'[i].source = findings[i].source]_vars

\* C8 witness: customise_finding has overridden the titles of the two
\* Findings of an event, which keep their two keys.
C8_Witness == Customised /\ call.title = TplNameDown /\ Len(findings) = 2 /\ findings[1].aggregation_key # findings[2].aggregation_key /\ findings[1].title = findings[2].title

\* C9 as claimed: customise_finding with a severity that is set and is none
\* of the five names fails before anything is overridden, so that it changes
\* no attribute of any Finding, title and description set or not.
C9_SetInvalidSeverityRaises == [][(call'.op = "customise_finding" /\ call'.severity \notin Unset \cup SeverityNames) => (findings' = findings)]_vars

\* C9 amended: customise_finding with a severity that is a non-empty string
\* and none of the five names raises and changes no Finding, title and
\* description set or not; the empty string is taken as no severity: the
\* call does not raise for it and changes no severity.
C9_NonEmptyInvalidSeverityRaises ==
  [][(call'.op = "customise_finding") =>
       /\ (call'.severity \notin Unset \cup SeverityNames \cup {<<>>}) => (outcome' = "InvalidSeverity" /\ findings' = findings)
       /\ (call'.severity = <<>>) =>
            /\ outcome' # "InvalidSeverity"
            /\ Len(findings') = Len(findings)
            /\ \A i \in 1..Len(findings) : findings'[i].severity = findings[i].severity]_vars

\* C9 witness: customise_finding with title and description set and
\* severity "CRITICAL" has raised on an event that holds a Finding.
C9_Witness == call.op = "customise_finding" /\ call.severity = SevCRITICAL /\ call.title = TplNameDown /\ call.description = TplInvalid /\ outcome = "InvalidSeverity" /\ Len(findings) >= 1

\* C10 as claimed: after customise_finding with a title that is not null,
\* the empty string included, every Finding's title is the rendering of
\* that title, and likewise the description.
C10_EverySetFieldApplied ==
  Customised => \A i \in 1..Len(findings) :
    /\ (call.title \notin Unset) => (findings[i].title = Rendering(call.title, get_subject))
    /\ (call.description \notin Unset) => (findings[i].description = Rendering(call.description, get_subject))

\* C10 amended: after customise_finding with a title that is neither null
\* nor the empty string, every Finding's title is the rendering of that
\* title, and likewise the description; the empty string is taken as null.
C10_NonEmptyFieldApplied ==
  Customised => \A i \in 1..Len(findings) :
    /\ (Truthy(call.title) /\ call.title # Omitted) => (findings[i].title = Rendering(call.title, get_subject))
    /\ (Truthy(call.description) /\ call.description # Omitted) => (findings[i].description = Rendering(call.description, get_subject))

\* C10 witness: customise_finding with title "$name down" and description
\* "$5 ${node" has set both on the Finding of the event.
C10_Witness == Customised /\ call.title = TplNameDown /\ call.description = TplInvalid /\ Len(findings) >= 1 /\ findings[1].title = get_subject.name \o <<" ", "d", "o", "w", "n">> /\ findings[1].description = TplInvalid

====
